---- MODULE Spec2Model ----
(***************************************************************************)
(* Model of script.js: the image prober (probeImagesInFolder), the         *)
(* per-card inline carousel (createProductCard) and the catalog loader     *)
(* (loadProducts).                                                         *)
(*                                                                         *)
(* The page is single-threaded: every action below is one task of the      *)
(* event loop (a listener, a timer callback, an image-load callback) or    *)
(* the continuation of an await, and runs to completion.                   *)
(***************************************************************************)
EXTENDS Integers, Sequences, FiniteSets, TLC

\* ---------------------------------------------------------------- bounds

\* Files of a product folder exist only at indices 1..MaxFileIndex.
MaxFileIndex == 3
\* options.maxIndex, when given, is drawn from 1..MaxOptIndex.
MaxOptIndex == 4
\* options.missLimit, when given, is drawn from 1..MaxOptMiss.
MaxOptMiss == 3
\* A direct showImage(i) call draws i from -MaxArg..MaxArg.
MaxArg == 7
\* A remote products.json lists at most MaxRemote products.
MaxRemote == 3

\* ------------------------------------------------------------- constants

\* const MAX_INDEX = options.maxIndex || 12
DefaultMaxIndex == 12
\* const CONSECUTIVE_MISS_LIMIT = options.missLimit || 4
DefaultMissLimit == 4
\* options.suffixes || ['jpg', 'jpeg', 'png', 'webp']
DefaultSuffixes == <<"jpg", "jpeg", "png", "webp">>
\* probeImagesInFolder(folder, { maxIndex: 20, missLimit: 5 })
CardMaxIndex == 20
CardMissLimit == 5
\* const AUTO_INTERVAL = 3500
AUTO_INTERVAL == 3500

\* ------------------------------------------------------------- variables

VARIABLES
  \* the environment: which files Images/Products/<folder>/<i>.<ext> exist
  folder,
  \* probeImagesInFolder: its arguments and the closure of its promise
  started, options, found, probeIdx, consecutiveMisses,
  loadedThisIndex, remaining,
  pending,        \* the Image objects of the current index not yet settled
  timerArmed,     \* a setTimeout(tryNext, 8) is pending
  issued,         \* every img.src = path so far, in order
  resolveCalls,   \* how many times resolve(found) was called
  promise,        \* the promise: [state |-> "pending"] or fulfilled with a value
  \* createProductCard: the card's closure and the parts of its markup
  created,        \* createProductCard has run
  name,           \* product.name
  images, idx, interval, isPaused,
  thumb,          \* thumb.src
  thumbAlt,       \* thumb.alt
  prevDisplay, nextDisplay,   \* prevBtn.style.display, nextBtn.style.display
  hint,           \* hint.textContent
  probeDone,      \* the continuation of `await probeImagesInFolder` has run
  timers,         \* the setInterval timers created and not cleared
  timersMade,     \* how many setInterval calls the card has made
  cardError,      \* a handler of the card ended in an uncaught TypeError
  removed,        \* the card's element has been taken out of the document
  \* loadProducts
  hasGrid,        \* document.getElementById('productGrid') is an element
  response,       \* what fetch('products.json') does
  loaderPc,       \* where loadProducts is: start, fetching (awaiting), done
  fetchCalls,     \* how many times fetch was called
  fallbacks,      \* how many times EMBEDDED_PRODUCTS was substituted
  gridCards,      \* the cards appended to productGrid, in order
  gridNotice,     \* productGrid holds markup that is no card
  \* the task that ran last, and the argument of a direct showImage call
  lastEvent, lastArg

probeVars == <<started, options, found, probeIdx, consecutiveMisses,
               loadedThisIndex, remaining, pending, timerArmed, issued,
               resolveCalls, promise>>

cardVars == <<created, name, images, idx, interval, isPaused, thumb, thumbAlt,
              prevDisplay, nextDisplay, hint, probeDone, timers, timersMade,
              cardError>>

loaderVars == <<hasGrid, response, loaderPc, fetchCalls, fallbacks, gridCards,
                gridNotice>>

vars == <<folder, probeVars, cardVars, removed, loaderVars, lastEvent, lastArg>>

\* ------------------------------------------------------------ the inputs

\* The sets of extensions a folder may hold at one index.
FileSets == {{}, {"jpg"}, {"png", "webp"}}

Folders == [1..MaxFileIndex -> FileSets]

\* The options objects probeImagesInFolder is called with: each of maxIndex,
\* missLimit and suffixes is present or absent.
NoOptions == <<>>

MaxIndexOptions == {NoOptions} \cup {"maxIndex" :> n : n \in 1..MaxOptIndex}

MissLimitOptions == {NoOptions} \cup {"missLimit" :> n : n \in 1..MaxOptMiss}

SuffixOptions ==
  {NoOptions} \cup
  {"suffixes" :> s : s \in {<<>>, <<"jpg">>, <<"png", "jpg">>, <<"webp", "png">>}}

OptionSets ==
  {a @@ b @@ c : a \in MaxIndexOptions, b \in MissLimitOptions, c \in SuffixOptions}

\* ------------------------------------------------- probeImagesInFolder

\* o.f || d : an absent (undefined) or zero field is falsy.
OrDefault(o, f, d) ==
  IF f \in DOMAIN o THEN (IF o[f] = 0 THEN d ELSE o[f]) ELSE d

MAX_INDEX(o) == OrDefault(o, "maxIndex", DefaultMaxIndex)

CONSECUTIVE_MISS_LIMIT(o) == OrDefault(o, "missLimit", DefaultMissLimit)

\* An array, the empty one included, is truthy.
suffixes(o) == IF "suffixes" \in DOMAIN o THEN o["suffixes"] ELSE DefaultSuffixes

\* `Images/Products/${folder}/${idx}.${sfx}`
Path(i, sfx) == [index |-> i, ext |-> sfx]

\* A URL that is no file of a folder: 'https://via.placeholder.com/600x400?text=<text>'
Placeholder(text) == [index |-> 0, ext |-> text]

\* No URL: there is no card.
NoUrl == [index |-> 0, ext |-> ""]

\* Whether the file of a path exists, so that its Image fires onload.
Loads(p) == p.index \in DOMAIN folder /\ p.ext \in folder[p.index]

\* A stop test that is off by one: one miss too many is allowed.
StopNowLate(o, i, misses) == i > MAX_INDEX(o) \/ misses > CONSECUTIVE_MISS_LIMIT(o)

\* if (idx > MAX_INDEX || consecutiveMisses >= CONSECUTIVE_MISS_LIMIT)
StopNow(o, i, misses) == i > MAX_INDEX(o) \/ misses >= CONSECUTIVE_MISS_LIMIT(o)

\* resolve(found): only the first call settles the promise.
Resolve(fnd) ==
  /\ resolveCalls' = resolveCalls + 1
  /\ promise' = IF promise.state = "pending"
                THEN [state |-> "fulfilled", value |-> fnd]
                ELSE promise

\* A tryNext without the closing test for an empty suffix list.
TryNextNoEmptyCheck(o, i, misses, fnd) ==
  IF StopNow(o, i, misses)
  THEN /\ Resolve(fnd)
       /\ UNCHANGED <<loadedThisIndex, remaining, pending, issued>>
  ELSE /\ loadedThisIndex' = FALSE
       /\ remaining' = Len(suffixes(o))
       /\ pending' = 1..Len(suffixes(o))
       /\ issued' = issued \o [j \in 1..Len(suffixes(o)) |-> Path(i, suffixes(o)[j])]
       /\ UNCHANGED <<resolveCalls, promise>>

\* function tryNext(), run with idx = i, consecutiveMisses = misses, found = fnd
TryNext(o, i, misses, fnd) ==
  IF StopNow(o, i, misses)
  THEN /\ Resolve(fnd)
       /\ UNCHANGED <<loadedThisIndex, remaining, pending, issued>>
  ELSE /\ loadedThisIndex' = FALSE
       /\ remaining' = Len(suffixes(o))
       /\ pending' = 1..Len(suffixes(o))
       /\ issued' = issued \o [j \in 1..Len(suffixes(o)) |-> Path(i, suffixes(o)[j])]
       /\ IF Len(suffixes(o)) = 0
          THEN Resolve(fnd)
          ELSE UNCHANGED <<resolveCalls, promise>>

\* probeImagesInFolder(folder, o): the promise's executor runs tryNext at once.
ProbeImagesInFolder(o) ==
  /\ ~started
  /\ started' = TRUE
  /\ options' = o
  /\ found' = <<>>
  /\ probeIdx' = 1
  /\ consecutiveMisses' = 0
  /\ timerArmed' = FALSE
  /\ TryNext(o, 1, 0, <<>>)

\* An advance that forgets the indices at which nothing loaded.
AdvanceAfterHitOnly(left) ==
  IF left = 0 /\ loadedThisIndex
  THEN probeIdx' = probeIdx + 1 /\ timerArmed' = TRUE
  ELSE UNCHANGED <<probeIdx, timerArmed>>

\* An advance that does not wait for the last callback of the index.
AdvanceEarly(left) ==
  IF left <= 1
  THEN probeIdx' = probeIdx + 1 /\ timerArmed' = TRUE
  ELSE UNCHANGED <<probeIdx, timerArmed>>

\* if (remaining === 0) { idx++; setTimeout(tryNext, 8); }
Advance(left) ==
  IF left = 0
  THEN probeIdx' = probeIdx + 1 /\ timerArmed' = TRUE
  ELSE UNCHANGED <<probeIdx, timerArmed>>

\* A first load that leaves the miss counter as it was.
MissesAfterLoadKept == consecutiveMisses

\* if (!loadedThisIndex) { ...; consecutiveMisses = 0; }
MissesAfterLoad == IF loadedThisIndex THEN consecutiveMisses ELSE 0

\* An onload that records every load, not only the first of its index.
ImgOnloadEvery(j) ==
  /\ j \in pending
  /\ Loads(Path(probeIdx, suffixes(options)[j]))
  /\ pending' = pending \ {j}
  /\ loadedThisIndex' = TRUE
  /\ found' = Append(found, [file |-> Path(probeIdx, suffixes(options)[j]),
                             alt |-> ""])
  /\ consecutiveMisses' = MissesAfterLoad
  /\ remaining' = remaining - 1
  /\ Advance(remaining - 1)
  /\ UNCHANGED <<started, options, issued, resolveCalls, promise>>

\* img.onload of the Image of suffixes[j]
ImgOnload(j) ==
  /\ j \in pending
  /\ Loads(Path(probeIdx, suffixes(options)[j]))
  /\ pending' = pending \ {j}
  /\ loadedThisIndex' = TRUE
  /\ found' = IF loadedThisIndex
              THEN found
              ELSE Append(found, [file |-> Path(probeIdx, suffixes(options)[j]),
                                  alt |-> ""])
  /\ consecutiveMisses' = MissesAfterLoad
  /\ remaining' = remaining - 1
  /\ Advance(remaining - 1)
  /\ UNCHANGED <<started, options, issued, resolveCalls, promise>>

\* img.onerror of the Image of suffixes[j]
ImgOnerror(j) ==
  /\ j \in pending
  /\ ~Loads(Path(probeIdx, suffixes(options)[j]))
  /\ pending' = pending \ {j}
  /\ remaining' = remaining - 1
  /\ consecutiveMisses' = IF remaining - 1 = 0 /\ ~loadedThisIndex
                          THEN consecutiveMisses + 1
                          ELSE consecutiveMisses
  /\ Advance(remaining - 1)
  /\ UNCHANGED <<started, options, found, loadedThisIndex, issued,
                 resolveCalls, promise>>

\* the setTimeout(tryNext, 8) callback
TimerFires ==
  /\ timerArmed
  /\ timerArmed' = FALSE
  /\ TryNext(options, probeIdx, consecutiveMisses, found)
  /\ UNCHANGED <<started, options, found, probeIdx, consecutiveMisses>>

\* ------------------------------------------ the prober's specification

ProbeIdle ==
  /\ started = FALSE
  /\ options = NoOptions
  /\ found = <<>>
  /\ probeIdx = 0
  /\ consecutiveMisses = 0
  /\ loadedThisIndex = FALSE
  /\ remaining = 0
  /\ pending = {}
  /\ timerArmed = FALSE
  /\ issued = <<>>
  /\ resolveCalls = 0
  /\ promise = [state |-> "pending"]

\* loadProducts has not been called; the response is one that is never read.
NoLoader ==
  /\ hasGrid = TRUE
  /\ response = [rejected |-> TRUE, ok |-> FALSE, valid |-> FALSE, body |-> [type |-> "null", items |-> <<>>]]
  /\ loaderPc = "none"
  /\ fetchCalls = 0
  /\ fallbacks = 0
  /\ gridCards = <<>>
  /\ gridNotice = FALSE

\* createProductCard has not been called.
NoCard ==
  /\ created = FALSE
  /\ name = ""
  /\ images = <<>>
  /\ idx = 0
  /\ interval = 0
  /\ isPaused = FALSE
  /\ thumb = NoUrl
  /\ thumbAlt = ""
  /\ prevDisplay = "none"
  /\ nextDisplay = "none"
  /\ hint = ""
  /\ probeDone = FALSE
  /\ timers = {}
  /\ timersMade = 0
  /\ cardError = FALSE

InitProbe ==
  /\ folder \in Folders
  /\ removed = FALSE
  /\ ProbeIdle
  /\ NoCard
  /\ NoLoader
  /\ lastEvent = "init"
  /\ lastArg = 0

CallProbe ==
  /\ \E o \in OptionSets : ProbeImagesInFolder(o)
  /\ lastEvent' = "probe"
  /\ UNCHANGED <<folder, removed, cardVars, loaderVars, lastArg>>

LoadSucceeds ==
  /\ \E j \in pending : ImgOnload(j)
  /\ lastEvent' = "onload"
  /\ UNCHANGED <<folder, removed, cardVars, loaderVars, lastArg>>

LoadFails ==
  /\ \E j \in pending : ImgOnerror(j)
  /\ lastEvent' = "onerror"
  /\ UNCHANGED <<folder, removed, cardVars, loaderVars, lastArg>>

ProbeTimer ==
  /\ TimerFires
  /\ lastEvent' = "tryNext"
  /\ UNCHANGED <<folder, removed, cardVars, loaderVars, lastArg>>

NextProbe == CallProbe \/ LoadSucceeds \/ LoadFails \/ ProbeTimer

SpecProbe == InitProbe /\ [][NextProbe]_vars

\* Every issued load settles and every armed timer fires.
FairProbe ==
  SpecProbe /\ WF_vars(LoadSucceeds) /\ WF_vars(LoadFails) /\ WF_vars(ProbeTimer)

\* ---------------------------------------------------- createProductCard

\* The product a card is created for (EMBEDDED_PRODUCTS, id 4).
SampleProduct == [id |-> 4, name |-> "Chair", folder |-> "Chair"]

\* { maxIndex: 20, missLimit: 5 }
CardOptions == ("maxIndex" :> CardMaxIndex) @@ ("missLimit" :> CardMissLimit)

\* JavaScript's a % n for n > 0: the remainder has the sign of a.
JsRem(a, n) == IF a >= 0 THEN a % n ELSE -((-a) % n)

\* An index computation without the wrap.
ShowIndexUnwrapped(i, len) == i

\* An index computation that clamps at the last image instead of wrapping.
ShowIndexClamped(i, len) == IF i >= len THEN len - 1 ELSE IF i < 0 THEN 0 ELSE i

\* (i + images.length) % images.length
ShowIndex(i, len) == JsRem(i + len, len)

displayVars == <<thumb, thumbAlt, prevDisplay, nextDisplay>>

\* A navigation display that is shown for any non-empty carousel.
NavDisplayAlways(imgs) == ""

\* if (images.length > 1) display = '' else display = 'none'
NavDisplay(imgs) == IF Len(imgs) > 1 THEN "" ELSE "none"

\* A showImage without the test for an empty list: the index moves anyway.
ShowImageUnguarded(imgs, i) ==
  IF Len(imgs) = 0
  THEN /\ idx' = i
       /\ UNCHANGED <<displayVars, cardError>>
  ELSE LET n == ShowIndex(i, Len(imgs))
       IN  /\ idx' = n
           /\ IF n \in 0..(Len(imgs) - 1)
              THEN /\ thumb' = imgs[n + 1].file
                   /\ thumbAlt' = IF imgs[n + 1].alt = "" THEN name ELSE imgs[n + 1].alt
                   /\ prevDisplay' = NavDisplay(imgs)
                   /\ nextDisplay' = NavDisplay(imgs)
                   /\ UNCHANGED cardError
              ELSE /\ cardError' = TRUE
                   /\ UNCHANGED displayVars

\* function showImage(i), with images = imgs.  images[idx] is undefined for an
\* idx outside 0..length-1, and reading its .file throws a TypeError.
ShowImage(imgs, i) ==
  IF Len(imgs) = 0
  THEN UNCHANGED <<idx, displayVars, cardError>>
  ELSE LET n == ShowIndex(i, Len(imgs))
       IN  /\ idx' = n
           /\ IF n \in 0..(Len(imgs) - 1)
              THEN /\ thumb' = imgs[n + 1].file
                   /\ thumbAlt' = IF imgs[n + 1].alt = "" THEN name ELSE imgs[n + 1].alt
                   /\ prevDisplay' = NavDisplay(imgs)
                   /\ nextDisplay' = NavDisplay(imgs)
                   /\ UNCHANGED cardError
              ELSE /\ cardError' = TRUE
                   /\ UNCHANGED displayVars

\* function stopAuto(): the timers left, the handle being cleared
StopAuto == IF interval # 0 THEN timers \ {interval} ELSE timers

\* A start that sets a timer whatever the number of images.
StartAutoAlways(imgs) ==
  /\ interval' = timersMade + 1
  /\ timers' = StopAuto \cup {timersMade + 1}
  /\ timersMade' = timersMade + 1

\* A start that sets a timer and does not keep its handle.
StartAutoLosesHandle(imgs) ==
  IF Len(imgs) <= 1
  THEN /\ interval' = 0
       /\ timers' = StopAuto
       /\ UNCHANGED timersMade
  ELSE /\ interval' = 0
       /\ timers' = StopAuto \cup {timersMade + 1}
       /\ timersMade' = timersMade + 1

\* function startAuto(), with images = imgs
StartAuto(imgs) ==
  IF Len(imgs) <= 1
  THEN /\ interval' = 0
       /\ timers' = StopAuto
       /\ UNCHANGED timersMade
  ELSE /\ interval' = timersMade + 1
       /\ timers' = StopAuto \cup {timersMade + 1}
       /\ timersMade' = timersMade + 1

timerVars == <<interval, timers, timersMade>>

\* The card createProductCard(p) returns, before any of its callbacks runs.
NewCard(p) ==
  [name |-> p.name, folder |-> p.folder,
   thumb |-> Placeholder("Loading"), thumbAlt |-> p.name,
   prevDisplay |-> "none", nextDisplay |-> "none",
   hint |-> "Images loading",
   images |-> <<>>, idx |-> 0, interval |-> 0, isPaused |-> FALSE]

\* createProductCard(product): the markup, the closure, and the probe started
\* by the async function, which runs up to its await.
CreateProductCard(p) ==
  /\ ~created
  /\ created' = TRUE
  /\ name' = NewCard(p).name
  /\ images' = NewCard(p).images
  /\ idx' = NewCard(p).idx
  /\ interval' = NewCard(p).interval
  /\ isPaused' = NewCard(p).isPaused
  /\ thumb' = NewCard(p).thumb
  /\ thumbAlt' = NewCard(p).thumbAlt
  /\ prevDisplay' = NewCard(p).prevDisplay
  /\ nextDisplay' = NewCard(p).nextDisplay
  /\ hint' = NewCard(p).hint
  /\ probeDone' = FALSE
  /\ UNCHANGED <<timers, timersMade, cardError>>
  /\ ProbeImagesInFolder(CardOptions)

\* The continuation of `await probeImagesInFolder(...)` is a microtask: it
\* runs before any other task once the promise is fulfilled.
MicrotaskPending == created /\ promise.state = "fulfilled" /\ ~probeDone

\* A listener or timer of the card can run.
CardIdle == created /\ ~MicrotaskPending

\* images = found.map(f => ({ file: f.file, alt: name }))
MapFound(fnd) == [n \in 1..Len(fnd) |-> [file |-> fnd[n].file, alt |-> name]]

\* const found = await probeImagesInFolder(...); if (found && found.length) ...
ProbeComplete ==
  /\ MicrotaskPending
  /\ probeDone' = TRUE
  /\ IF Len(promise.value) > 0
     THEN /\ images' = MapFound(promise.value)
          /\ hint' = ""
          /\ ShowImage(MapFound(promise.value), 0)
          /\ StartAuto(MapFound(promise.value))
     ELSE /\ thumb' = Placeholder("No+Image")
          /\ hint' = "No images available"
          /\ UNCHANGED <<images, idx, thumbAlt, prevDisplay, nextDisplay,
                         cardError, timerVars>>
  /\ UNCHANGED <<created, name, isPaused>>

\* A handler that only calls showImage(i).
Navigate(i) ==
  /\ ShowImage(images, i)
  /\ UNCHANGED <<created, name, images, isPaused, hint, probeDone, timerVars>>

\* A pause that clears the timer instead of leaving it to skip its ticks.
SetPausedStopping(b) ==
  /\ isPaused' = b
  /\ interval' = IF b THEN 0 ELSE interval
  /\ timers' = IF b THEN StopAuto ELSE timers
  /\ UNCHANGED <<created, name, images, idx, displayVars, hint, probeDone,
                 timersMade, cardError>>

\* A handler that only sets isPaused.
SetPaused(b) ==
  /\ isPaused' = b
  /\ UNCHANGED <<created, name, images, idx, displayVars, hint, probeDone,
                 timerVars, cardError>>

\* A prevBtn click that also reaches the card's click listener.
PrevClickBubbling ==
  /\ CardIdle
  /\ ShowImage(images, idx - 1)
  /\ isPaused' = ~isPaused
  /\ IF isPaused /\ interval = 0
     THEN StartAuto(images)
     ELSE UNCHANGED timerVars
  /\ UNCHANGED <<created, name, images, hint, probeDone>>

\* prevBtn click: e.stopPropagation(); showImage(idx - 1)
PrevClick == CardIdle /\ Navigate(idx - 1)

\* nextBtn click: e.stopPropagation(); showImage(idx + 1)
NextClick == CardIdle /\ Navigate(idx + 1)

\* mouseenter, mouseleave, focusin, focusout
MouseEnter == CardIdle /\ SetPaused(TRUE)

\* A mouseleave that lifts only the pause a hover or a focus set.
MouseLeaveKeepsClickPause ==
  /\ CardIdle
  /\ SetPaused(isPaused /\ lastEvent \in {"click", " "})

MouseLeave == CardIdle /\ SetPaused(FALSE)

FocusIn == CardIdle /\ SetPaused(TRUE)

FocusOut == CardIdle /\ SetPaused(FALSE)

Keys == {"ArrowRight", "ArrowLeft", " ", "Enter", "a"}

\* keydown with e.key = k
KeyDown(k) ==
  /\ CardIdle
  /\ CASE k = "ArrowRight" -> Navigate(idx + 1)
       [] k = "ArrowLeft" -> Navigate(idx - 1)
       [] k = " " -> SetPaused(~isPaused)
       [] OTHER -> UNCHANGED cardVars

\* A click that pauses by clearing the timer and resumes by starting one.
CardClickStopping ==
  /\ CardIdle
  /\ isPaused' = ~isPaused
  /\ IF isPaused
     THEN StartAuto(images)
     ELSE /\ interval' = 0
          /\ timers' = StopAuto
          /\ UNCHANGED timersMade
  /\ UNCHANGED <<created, name, images, idx, displayVars, hint, probeDone,
                 cardError>>

\* card click: isPaused = !isPaused; if (!isPaused && !interval) startAuto()
CardClick ==
  /\ CardIdle
  /\ isPaused' = ~isPaused
  /\ IF isPaused /\ interval = 0
     THEN StartAuto(images)
     ELSE UNCHANGED timerVars
  /\ UNCHANGED <<created, name, images, idx, displayVars, hint, probeDone,
                 cardError>>

\* (idx + 1) % images.length
TickTarget == JsRem(idx + 1, Len(images))

\* An autoplay callback that does not look at the pause flag.
TickIgnoringPause(t) ==
  /\ CardIdle
  /\ t \in timers
  /\ Navigate(TickTarget)

\* the setInterval callback of timer t: if (!isPaused) showImage(...)
Tick(t) ==
  /\ CardIdle
  /\ t \in timers
  /\ IF isPaused
     THEN UNCHANGED cardVars
     ELSE Navigate(TickTarget)

\* ------------------------------------------- the card's specification

\* The listeners of the card run on events sent to its element while it is in
\* the document (~removed); the probe's callbacks and the timer need no element.

InitCard ==
  /\ folder \in Folders
  /\ removed = FALSE
  /\ ProbeIdle
  /\ NoCard
  /\ NoLoader
  /\ lastEvent = "init"
  /\ lastArg = 0

Create ==
  /\ CreateProductCard(SampleProduct)
  /\ lastEvent' = "create"
  /\ UNCHANGED <<folder, removed, loaderVars, lastArg>>

CardLoadSucceeds ==
  /\ created
  /\ \E j \in pending : ImgOnload(j)
  /\ lastEvent' = "onload"
  /\ UNCHANGED <<folder, removed, cardVars, loaderVars, lastArg>>

CardLoadFails ==
  /\ created
  /\ \E j \in pending : ImgOnerror(j)
  /\ lastEvent' = "onerror"
  /\ UNCHANGED <<folder, removed, cardVars, loaderVars, lastArg>>

CardProbeTimer ==
  /\ created
  /\ TimerFires
  /\ lastEvent' = "tryNext"
  /\ UNCHANGED <<folder, removed, cardVars, loaderVars, lastArg>>

Completion ==
  /\ ProbeComplete
  /\ lastEvent' = "probeComplete"
  /\ UNCHANGED <<folder, removed, probeVars, loaderVars, lastArg>>

OnPrevClick ==
  /\ ~removed
  /\ PrevClick
  /\ lastEvent' = "prevClick"
  /\ UNCHANGED <<folder, removed, probeVars, loaderVars, lastArg>>

OnNextClick ==
  /\ ~removed
  /\ NextClick
  /\ lastEvent' = "nextClick"
  /\ UNCHANGED <<folder, removed, probeVars, loaderVars, lastArg>>

OnMouseEnter ==
  /\ ~removed
  /\ MouseEnter
  /\ lastEvent' = "mouseenter"
  /\ UNCHANGED <<folder, removed, probeVars, loaderVars, lastArg>>

OnMouseLeave ==
  /\ ~removed
  /\ MouseLeave
  /\ lastEvent' = "mouseleave"
  /\ UNCHANGED <<folder, removed, probeVars, loaderVars, lastArg>>

OnFocusIn ==
  /\ ~removed
  /\ FocusIn
  /\ lastEvent' = "focusin"
  /\ UNCHANGED <<folder, removed, probeVars, loaderVars, lastArg>>

OnFocusOut ==
  /\ ~removed
  /\ FocusOut
  /\ lastEvent' = "focusout"
  /\ UNCHANGED <<folder, removed, probeVars, loaderVars, lastArg>>

OnKeyDown ==
  /\ ~removed
  /\ \E k \in Keys : KeyDown(k) /\ lastEvent' = k
  /\ UNCHANGED <<folder, removed, probeVars, loaderVars, lastArg>>

OnCardClick ==
  /\ ~removed
  /\ CardClick
  /\ lastEvent' = "click"
  /\ UNCHANGED <<folder, removed, probeVars, loaderVars, lastArg>>

OnTick ==
  /\ \E t \in timers : Tick(t)
  /\ lastEvent' = "tick"
  /\ UNCHANGED <<folder, removed, probeVars, loaderVars, lastArg>>

NextCard ==
  \/ Create
  \/ CardLoadSucceeds
  \/ CardLoadFails
  \/ CardProbeTimer
  \/ Completion
  \/ OnPrevClick
  \/ OnNextClick
  \/ OnMouseEnter
  \/ OnMouseLeave
  \/ OnFocusIn
  \/ OnFocusOut
  \/ OnKeyDown
  \/ OnCardClick
  \/ OnTick

SpecCard == InitCard /\ [][NextCard]_vars

\* ------------------------------------------ the card within its page

\* document visibilitychange: the listener's body is empty.
OnVisibilityChange ==
  /\ ~MicrotaskPending
  /\ lastEvent' = "visibilitychange"
  /\ UNCHANGED <<folder, removed, probeVars, cardVars, loaderVars, lastArg>>

\* The card's element is taken out of the document.  No code of the card
\* runs: the closure, its probe and its timer are untouched.
OnRemove ==
  /\ CardIdle
  /\ ~removed
  /\ removed' = TRUE
  /\ lastEvent' = "remove"
  /\ UNCHANGED <<folder, probeVars, cardVars, loaderVars, lastArg>>

NextPage == NextCard \/ OnVisibilityChange \/ OnRemove

SpecPage == InitCard /\ [][NextPage]_vars

\* ------------------------------------ showImage called with any integer

\* showImage(i) on a card that shows images, for any i in -MaxArg..MaxArg.
CallShowImage ==
  /\ CardIdle
  /\ probeDone
  /\ Len(images) > 0
  /\ \E i \in -MaxArg..MaxArg : Navigate(i) /\ lastArg' = i
  /\ lastEvent' = "showImage"
  /\ UNCHANGED <<folder, removed, probeVars, loaderVars>>

NextShowImage == NextCard \/ CallShowImage

SpecShowImage == InitCard /\ [][NextShowImage]_vars

\* ------------------------------------------------------- loadProducts

EMBEDDED_PRODUCTS == <<
  [id |-> 1, name |-> "Baby Rockers", folder |-> "BabyRockers"],
  [id |-> 2, name |-> "Bero", folder |-> "Bero"],
  [id |-> 3, name |-> "Ceiling Fan", folder |-> "ceilingfan"],
  [id |-> 4, name |-> "Chair", folder |-> "Chair"],
  [id |-> 5, name |-> "Cooker", folder |-> "Cooker"],
  [id |-> 6, name |-> "Cot", folder |-> "Cot"],
  [id |-> 7, name |-> "Dressing Table", folder |-> "DressingTable"],
  [id |-> 8, name |-> "Electric Rice Cooker", folder |-> "ElectricRiceCooker"],
  [id |-> 9, name |-> "Gas Stove", folder |-> "GasStove"],
  [id |-> 10, name |-> "House Hold Plastic Products", folder |-> "HouseHoldPlasticProducts"],
  [id |-> 11, name |-> "Induction Stove", folder |-> "InductionStove"],
  [id |-> 12, name |-> "Matress", folder |-> "Matress"],
  [id |-> 13, name |-> "Mixer-Grinder", folder |-> "MixerGrinder"],
  [id |-> 14, name |-> "Office Table", folder |-> "OfficeTable"],
  [id |-> 15, name |-> "Pedestal Fan", folder |-> "PedestalFan"],
  [id |-> 16, name |-> "Plastic Containers", folder |-> "PlasticContainers"],
  [id |-> 17, name |-> "Pooja Rack", folder |-> "PoojaRack"],
  [id |-> 18, name |-> "System Table", folder |-> "SystemTable"],
  [id |-> 19, name |-> "Table Fan", folder |-> "TableFan"],
  [id |-> 20, name |-> "Table Top Grinder", folder |-> "TableTopGrinder"],
  [id |-> 21, name |-> "Wire Cot", folder |-> "WireCot"] >>

\* The products a remote products.json may list.
RemoteProducts ==
  { [id |-> 101, name |-> "Lamp", folder |-> "Lamp"],
    [id |-> 102, name |-> "Sofa", folder |-> "Sofa"],
    EMBEDDED_PRODUCTS[4] }

\* The sequences over S of length at most n.
RECURSIVE SeqsUpTo(_, _)
SeqsUpTo(S, n) ==
  IF n = 0 THEN {<<>>}
  ELSE LET shorter == SeqsUpTo(S, n - 1)
       IN  shorter \cup {Append(q, x) : q \in shorter, x \in S}

\* A JSON value: null, an object that is no array, or an array of products.
JsonNull == [type |-> "null", items |-> <<>>]

JsonValues ==
  {JsonNull, [type |-> "object", items |-> <<>>]} \cup
  {[type |-> "array", items |-> q] : q \in SeqsUpTo(RemoteProducts, MaxRemote)}

\* What fetch('products.json') does: it rejects (rejected), or answers with a
\* status that is 2xx or not (ok) and a body that parses as JSON or not (valid).
Responses ==
  {[rejected |-> TRUE, ok |-> FALSE, valid |-> FALSE, body |-> JsonNull]} \cup
  {[rejected |-> FALSE, ok |-> k, valid |-> FALSE, body |-> JsonNull] : k \in BOOLEAN} \cup
  {[rejected |-> FALSE, ok |-> k, valid |-> TRUE, body |-> b] :
     k \in BOOLEAN, b \in JsonValues}

\* A safeFetchJson that does not look at r.ok.
SafeFetchJsonAnyStatus(r) ==
  IF r.rejected \/ ~r.valid THEN JsonNull ELSE r.body

\* async function safeFetchJson(url): null on a rejected fetch, a status that
\* is not ok, or a body that does not parse.
SafeFetchJson(r) ==
  IF r.rejected \/ ~r.ok \/ ~r.valid THEN JsonNull ELSE r.body

\* !v : null is falsy, an object or an array is truthy.
Falsy(v) == v.type = "null"

\* A length test that never finds a list empty.
NoLengthNever(v) == FALSE

\* !v.length : an object that is no array has no length; an empty array has 0.
NoLength(v) == v.type # "array" \/ Len(v.items) = 0

EmbeddedJson == [type |-> "array", items |-> EMBEDDED_PRODUCTS]

\* loadProducts up to `await safeFetchJson('products.json')`
LoadProductsBegin ==
  /\ loaderPc = "start"
  /\ IF ~hasGrid
     THEN /\ loaderPc' = "done"
          /\ UNCHANGED <<fetchCalls, gridCards, gridNotice>>
     ELSE /\ loaderPc' = "fetching"
          /\ fetchCalls' = fetchCalls + 1
          /\ gridCards' = <<>>
          /\ gridNotice' = FALSE
  /\ UNCHANGED <<hasGrid, response, fallbacks>>

\* loadProducts from the await on: the fallback, the notice or the cards
LoadProductsRender ==
  /\ loaderPc = "fetching"
  /\ loaderPc' = "done"
  /\ LET fetched == SafeFetchJson(response)
         products == IF Falsy(fetched) THEN EmbeddedJson ELSE fetched
     IN  /\ fallbacks' = IF Falsy(fetched) THEN fallbacks + 1 ELSE fallbacks
         /\ IF Falsy(products) \/ NoLength(products)
            THEN /\ gridNotice' = TRUE
                 /\ UNCHANGED gridCards
            ELSE /\ gridCards' = gridCards \o
                       [n \in 1..Len(products.items) |-> NewCard(products.items[n])]
                 /\ UNCHANGED gridNotice
  /\ UNCHANGED <<hasGrid, response, fetchCalls>>

\* ----------------------------------------- the loader's specification

\* The page before DOMContentLoaded: the grid element exists or not, and it
\* may hold markup of the page; no card of the grid is followed further.
InitLoader ==
  /\ folder = [i \in 1..MaxFileIndex |-> {}]
  /\ removed = FALSE
  /\ ProbeIdle
  /\ NoCard
  /\ lastEvent = "init"
  /\ lastArg = 0
  /\ hasGrid \in BOOLEAN
  /\ response \in Responses
  /\ loaderPc = "start"
  /\ fetchCalls = 0
  /\ fallbacks = 0
  /\ gridCards = <<>>
  /\ gridNotice \in BOOLEAN

\* document DOMContentLoaded: await loadProducts()
DOMContentLoaded ==
  /\ LoadProductsBegin
  /\ lastEvent' = "DOMContentLoaded"
  /\ UNCHANGED <<folder, removed, probeVars, cardVars, lastArg>>

FetchSettles ==
  /\ LoadProductsRender
  /\ lastEvent' = "fetch"
  /\ UNCHANGED <<folder, removed, probeVars, cardVars, lastArg>>

NextLoader == DOMContentLoaded \/ FetchSettles

SpecLoader == InitLoader /\ [][NextLoader]_vars

\* ------------------------------------------------ what a folder holds

\* Index i holds an image the probe can find: a file with a probed extension.
HasImage(o, i) ==
  \E j \in 1..Len(suffixes(o)) : Loads(Path(i, suffixes(o)[j]))

ImageIndices(o) == {i \in 1..MaxFileIndex : HasImage(o, i)}

\* The folder holds images at exactly the indices 1..k, for some k.
PrefixShaped(o) == ImageIndices(o) = 1..Cardinality(ImageIndices(o))

Min(a, b) == IF a <= b THEN a ELSE b

\* The number of indices after the last image at or below n, up to n.
MissesUpTo(o, n) ==
  LET hits == {i \in 1..n : HasImage(o, i)}
  IN  IF hits = {} THEN n ELSE n - (CHOOSE h \in hits : \A g \in hits : g <= h)

\* Index i is attempted: it is within maxIndex and no run of missLimit
\* consecutive imageless indices ends before it.
Attempted(o, i) ==
  /\ i <= MAX_INDEX(o)
  /\ \A n \in 1..(i - 1) : MissesUpTo(o, n) < CONSECUTIVE_MISS_LIMIT(o)

\* The first index that is not attempted.
StopIndex(o) ==
  CHOOSE n \in 1..(MAX_INDEX(o) + 1) :
    ~Attempted(o, n) /\ \A m \in 1..(n - 1) : Attempted(o, m)

Fulfilled == promise.state = "fulfilled"

ResultIndices == {promise.value[n].file.index : n \in 1..Len(promise.value)}

IncreasingResult ==
  \A m, n \in 1..Len(promise.value) :
    m < n => promise.value[m].file.index < promise.value[n].file.index

IssuedSet == {issued[n] : n \in 1..Len(issued)}

\* --------------------------------------------------------------- claims

\* C1: for a folder holding images at exactly the indices 1..k, k <= maxIndex,
\* probe resolves with exactly k results in increasing index order; load
\* attempts are issued once per (index, extension) pair for the indices up to
\* min(maxIndex, k + missLimit), and never for a later index.
C1_PrefixFolder ==
  (started /\ PrefixShaped(options)
     /\ Cardinality(ImageIndices(options)) <= MAX_INDEX(options)) =>
    LET k == Cardinality(ImageIndices(options))
        last == Min(MAX_INDEX(options), k + CONSECUTIVE_MISS_LIMIT(options))
        sfx == suffixes(options)
        expected == {Path(i, sfx[j]) : i \in 1..last, j \in 1..Len(sfx)}
    IN  /\ \A n \in 1..Len(issued) : issued[n].index <= last
        /\ \A m, n \in 1..Len(issued) : issued[m] = issued[n] => m = n
        /\ Fulfilled =>
             /\ Len(promise.value) = k
             /\ \A n \in 1..k : /\ promise.value[n].file.index = n
                                /\ Loads(promise.value[n].file)
             /\ IssuedSet = expected

C1_Witness ==
  /\ Fulfilled
  /\ PrefixShaped(options)
  /\ Len(promise.value) = 2
  /\ Len(suffixes(options)) = 2
  /\ 2 + CONSECUTIVE_MISS_LIMIT(options) < MAX_INDEX(options)
  /\ Len(issued) = 2 * (2 + CONSECUTIVE_MISS_LIMIT(options))

\* The result of a stopped probe, and the miss counter on completing an index.
C2_Stopped ==
  Fulfilled =>
    /\ ResultIndices = {i \in ImageIndices(options) : Attempted(options, i)}
    /\ ResultIndices = {i \in ImageIndices(options) : i < StopIndex(options)}
    /\ IncreasingResult
    /\ Len(suffixes(options)) > 0 =>
         /\ probeIdx = StopIndex(options)
         /\ \A n \in 1..Len(issued) : issued[n].index < StopIndex(options)

C2_Counter ==
  (started /\ probeIdx' = probeIdx + 1) =>
    consecutiveMisses' = IF HasImage(options, probeIdx)
                         THEN 0
                         ELSE consecutiveMisses + 1

\* C2: for any pattern of existing and missing indices, with a non-empty
\* extension list: on completing an index the miss counter is reset to zero
\* when the index holds an image and incremented by one when it does not; the
\* probe stops at the first index that exceeds maxIndex or is reached with
\* missLimit consecutive misses; the result is exactly the images at the
\* indices before that one, so an image after a gap shorter than missLimit is
\* found and one after a gap of missLimit or more is not.
C2_ArbitraryPattern == [](C2_Stopped) /\ [][C2_Counter]_vars

C2_Witness ==
  /\ Fulfilled
  /\ ~HasImage(options, 1)
  /\ ~HasImage(options, 2)
  /\ HasImage(options, 3)
  /\ CONSECUTIVE_MISS_LIMIT(options) = 3
  /\ ResultIndices = {3}

\* Another case of C2: an image after a gap of missLimit indices is not found.
C2_SkippedImage ==
  /\ Fulfilled
  /\ HasImage(options, 1)
  /\ ~HasImage(options, 2)
  /\ HasImage(options, 3)
  /\ 3 <= MAX_INDEX(options)
  /\ ResultIndices = {1}

\* C3: a started probe whose load attempts all settle eventually resolves; it
\* resolves exactly once and never rejects, a failure of every extension at an
\* index being a miss.
C3_AlwaysResolves ==
  /\ [](started => <>Fulfilled)
  /\ [](resolveCalls <= 1)
  /\ [](promise.state \in {"pending", "fulfilled"})
  /\ [](Fulfilled => resolveCalls = 1)

C3_Witness ==
  /\ Fulfilled
  /\ resolveCalls = 1
  /\ promise.value = <<>>
  /\ Len(issued) = Len(suffixes(options)) * CONSECUTIVE_MISS_LIMIT(options)
  /\ Len(issued) > 0

\* ((i mod len) + len) mod len, the index in 0..len-1 congruent to i
WrapIndex(i, len) == ((i % len) + len) % len

\* C4: for a carousel of len >= 1 images and any integer i, showImage(i) sets
\* currentIndex to ((i mod len) + len) mod len, a value in 0..len-1.
C4_ShowImageWraps ==
  (lastEvent = "showImage" /\ Len(images) > 0) =>
    /\ idx = WrapIndex(lastArg, Len(images))
    /\ idx \in 0..(Len(images) - 1)
    /\ ~cardError

\* C5: whatever the interleaving of probe completion, ticks, clicks, keys and
\* hover/focus events, a card with images has 0 <= currentIndex < length and
\* displays images[currentIndex].
C5_IndexInRange ==
  (created /\ Len(images) > 0) =>
    /\ idx \in 0..(Len(images) - 1)
    /\ thumb = images[idx + 1].file
    /\ thumbAlt = name
    /\ ~cardError

C5_Witness ==
  /\ Len(images) = 3
  /\ idx = 2
  /\ lastEvent = "ArrowLeft"
  /\ thumb = images[3].file

\* C6: the timer handle is set iff the probe has completed with two or more
\* images: no timer while Loading, in Empty or with one image, whatever the
\* events; a timer from probe completion on with two or more images.
C6_TimerIffSeveralImages ==
  /\ (interval # 0) <=> (created /\ probeDone /\ Len(images) > 1)
  /\ timers = IF interval # 0 THEN {interval} ELSE {}
  /\ (created /\ probeDone) => Len(images) = Len(promise.value)

C6_Witness ==
  /\ probeDone
  /\ Len(images) = 1
  /\ lastEvent = "click"
  /\ ~isPaused
  /\ interval = 0
  /\ timers = {}

\* C7: the previous/next controls are shown iff the card has two or more
\* images: hidden while Loading, in Empty and with one image, shown otherwise.
C7_NavShownIffSeveralImages ==
  created =>
    /\ (prevDisplay = "") <=> (Len(images) > 1)
    /\ (nextDisplay = "") <=> (Len(images) > 1)
    /\ prevDisplay \in {"", "none"}
    /\ nextDisplay \in {"", "none"}

C7_Witness ==
  /\ probeDone
  /\ Len(images) = 1
  /\ lastEvent = "nextClick"
  /\ prevDisplay = "none"
  /\ nextDisplay = "none"

\* A step of the setInterval callback, and a step that changes the pause flag.
C8_TickStep ==
  (lastEvent' = "tick" /\ Len(images) >= 2) =>
    IF isPaused
    THEN idx' = idx /\ thumb' = thumb
    ELSE idx' = (idx + 1) % Len(images) /\ thumb' = images[idx' + 1].file

C8_PauseStep ==
  (isPaused' # isPaused) => (interval' = interval /\ timers' = timers)

\* C8: with two or more images, a tick with the pause flag clear advances
\* currentIndex by one modulo the length, a tick with the flag set changes
\* neither currentIndex nor the displayed image, and a change of the pause
\* flag leaves the timer as it is.
C8_Autoplay == [][C8_TickStep /\ C8_PauseStep]_vars

C8_Witness ==
  /\ lastEvent = "tick"
  /\ Len(images) = 3
  /\ ~isPaused
  /\ idx = 0
  /\ thumb = images[1].file
  /\ interval \in timers

\* Another case of C8: a tick while paused.
C8_PausedTick ==
  /\ lastEvent = "tick"
  /\ isPaused
  /\ Len(images) >= 2

\* The index after n calls of next() from index i.
RECURSIVE NextTimes(_, _, _)
NextTimes(n, i, len) ==
  IF n = 0 THEN i ELSE NextTimes(n - 1, ShowIndex(i + 1, len), len)

\* next() and previous() computed by showImage, and as steps of the card.
C9_Algebra ==
  (created /\ Len(images) >= 1) =>
    LET len == Len(images)
    IN  /\ ShowIndex(ShowIndex(idx + 1, len) - 1, len) = idx
        /\ ShowIndex(ShowIndex(idx - 1, len) + 1, len) = idx
        /\ NextTimes(len, idx, len) = idx
        /\ ShowIndex(0 - 1, len) = len - 1
        /\ ShowIndex((len - 1) + 1, len) = 0

C9_Step ==
  Len(images) >= 1 =>
    /\ lastEvent' \in {"nextClick", "ArrowRight"} =>
         idx' = IF idx = Len(images) - 1 THEN 0 ELSE idx + 1
    /\ lastEvent' \in {"prevClick", "ArrowLeft"} =>
         idx' = IF idx = 0 THEN Len(images) - 1 ELSE idx - 1

\* C9: with len >= 1 images, previous() from 0 yields len-1 and next() from
\* len-1 yields 0; next() then previous(), and previous() then next(), return
\* to the index before; len calls of next() return to the starting index.
C9_NextPrevious == [](C9_Algebra) /\ [][C9_Step]_vars

C9_Witness ==
  /\ lastEvent = "prevClick"
  /\ Len(images) = 2
  /\ idx = 1
  /\ thumb = images[2].file

FetchFailed == response.rejected \/ ~response.ok \/ ~response.valid

\* C10: when the catalog fetch fails (it rejects, answers with a status that
\* is not 2xx, or with a body that is no JSON), the loader substitutes the
\* embedded list once and fetches once, and the container then holds exactly
\* 21 cards, one per embedded product in list order, each in the Loading
\* state with the loading placeholder.
C10_FallbackOnFetchFailure ==
  /\ fetchCalls <= 1
  /\ fallbacks <= 1
  /\ (loaderPc = "done" /\ fetchCalls = 1 /\ FetchFailed) =>
       /\ fallbacks = 1
       /\ Len(EMBEDDED_PRODUCTS) = 21
       /\ Len(gridCards) = 21
       /\ ~gridNotice
       /\ \A n \in 1..21 :
            /\ gridCards[n].name = EMBEDDED_PRODUCTS[n].name
            /\ gridCards[n].folder = EMBEDDED_PRODUCTS[n].folder
            /\ gridCards[n].thumb = Placeholder("Loading")
            /\ gridCards[n].hint = "Images loading"
            /\ gridCards[n].images = <<>>
            /\ gridCards[n].interval = 0
            /\ gridCards[n].prevDisplay = "none"
            /\ gridCards[n].nextDisplay = "none"

C10_Witness ==
  /\ loaderPc = "done"
  /\ ~response.rejected
  /\ ~response.ok
  /\ response.valid
  /\ response.body.type = "array"
  /\ Len(response.body.items) = 2
  /\ fallbacks = 1
  /\ Len(gridCards) = 21

\* The list the loader ends with holds no product: the remote list when the
\* fetch gave one, the embedded list otherwise.
NoProducts ==
  IF FetchFailed \/ response.body.type = "null"
  THEN Len(EMBEDDED_PRODUCTS) = 0
  ELSE response.body.type # "array" \/ Len(response.body.items) = 0

C12_EmptySuffixes ==
  (started /\ suffixes(options) = <<>>) =>
    /\ Fulfilled
    /\ promise.value = <<>>
    /\ issued = <<>>
    /\ resolveCalls = 1
    /\ pending = {}
    /\ ~timerArmed

C12_Witness ==
  /\ started
  /\ "suffixes" \in DOMAIN options
  /\ options.suffixes = <<>>
  /\ lastEvent = "probe"
  /\ Fulfilled
  /\ promise.value = <<>>
  /\ issued = <<>>
  /\ \E i \in DOMAIN folder : folder[i] # {}

\* While an attempt of the current index is unsettled: every attempt issued
\* so far is for an index up to the current one, the unsettled ones are of
\* the current index, no tryNext is scheduled and the promise is pending.
C13_Unsettled ==
  pending # {} =>
    /\ remaining = Cardinality(pending)
    /\ pending \subseteq 1..Len(suffixes(options))
    /\ \A n \in 1..Len(issued) : issued[n].index <= probeIdx
    /\ \A j \in pending : Path(probeIdx, suffixes(options)[j]) \in IssuedSet
    /\ ~timerArmed
    /\ promise.state = "pending"
    /\ resolveCalls = 0

\* Attempts are issued only when nothing is unsettled, all for one index,
\* later than every index attempted before.
C13_Issue ==
  issued' # issued =>
    /\ pending = {}
    /\ remaining = 0
    /\ Len(issued') = Len(issued) + Len(suffixes(options'))
    /\ \A n \in (Len(issued) + 1)..Len(issued') :
         /\ issued'[n].index = probeIdx'
         /\ \A m \in 1..Len(issued) : issued[m].index < issued'[n].index

\* While an attempt stays unsettled the probe stays where it is.
C13_Blocked ==
  (pending # {} /\ pending' # {}) =>
    /\ probeIdx' = probeIdx
    /\ issued' = issued
    /\ promise' = promise
    /\ pending' \subseteq pending
    /\ ~timerArmed'

\* C13: no load attempt for index N+1 is issued before every extension's
\* attempt for index N has settled, whatever the order of the callbacks; an
\* attempt that never settles keeps the probe at its index, unresolved.
C13_IndexBarrier ==
  /\ []C13_Unsettled
  /\ [][C13_Issue /\ C13_Blocked]_vars

C13_Witness ==
  /\ started
  /\ probeIdx = 2
  /\ Len(suffixes(options)) >= 2
  /\ Cardinality(pending) = 1
  /\ lastEvent \in {"onload", "onerror"}
  /\ promise.state = "pending"
  /\ \A n \in 1..Len(issued) : issued[n].index <= 2

\* At most one entry per index, in increasing index order, each of a file
\* that loads; an index whose attempts have all settled has an entry exactly
\* when one of its extensions loads, and the current index has one exactly
\* when a load of it has fired.
C14_Found ==
  started =>
    /\ \A m, n \in 1..Len(found) : m < n => found[m].file.index < found[n].file.index
    /\ \A n \in 1..Len(found) :
         /\ Loads(found[n].file)
         /\ found[n].file \in IssuedSet
         /\ found[n].alt = ""
    /\ \A i \in 1..MaxFileIndex :
         LET entries == {n \in 1..Len(found) : found[n].file.index = i}
             settledAll == \E n \in 1..Len(issued) : issued[n].index = i
                           /\ (i < probeIdx \/ pending = {})
         IN  /\ Cardinality(entries) <= 1
             /\ settledAll => (entries # {} <=> HasImage(options, i))
             /\ (i = probeIdx /\ pending # {}) => (entries # {} <=> loadedThisIndex)
    /\ Fulfilled => promise.value = found

\* A load that fires records the path it loaded if it is the first of its
\* index and nothing otherwise; no other step changes what is found.
C14_Step ==
  IF lastEvent' = "onload"
  THEN LET j == CHOOSE k \in pending : k \notin pending'
       IN  found' = IF loadedThisIndex
                    THEN found
                    ELSE Append(found, [file |-> Path(probeIdx, suffixes(options)[j]),
                                        alt |-> ""])
  ELSE started => found' = found

\* C14: for every index with at least one loading extension, in whatever
\* order the callbacks fire, exactly one image is recorded, built from the
\* path of the first load to fire; later loads of the index add nothing, and
\* the result is strictly increasing by index.
C14_FirstSuccessOnly ==
  /\ []C14_Found
  /\ [][C14_Step]_vars
  /\ [](Fulfilled => IncreasingResult)

C14_Witness ==
  /\ Fulfilled
  /\ "suffixes" \in DOMAIN options
  /\ options.suffixes = <<"webp", "png">>
  /\ folder[1] = {"png", "webp"}
  /\ Len(promise.value) >= 1
  /\ promise.value[1].file = Path(1, "png")
  /\ \A n \in 2..Len(promise.value) : promise.value[n].file.index > 1

\* The events that navigate: the buttons, the arrow keys and the timer.
NavEvents == {"prevClick", "nextClick", "ArrowLeft", "ArrowRight", "tick"}

\* The card's probe has completed and found no image.
EmptyCard == probeDone /\ images = <<>>

\* What an empty card shows, and that it has no timer.
C15_EmptyShown ==
  EmptyCard =>
    /\ thumb = Placeholder("No+Image")
    /\ hint = "No images available"
    /\ prevDisplay = "none"
    /\ nextDisplay = "none"
    /\ idx = 0
    /\ interval = 0
    /\ timers = {}
    /\ timersMade = 0
    /\ ~cardError

\* Without images a navigating event changes neither the index nor the
\* image nor the buttons.
C15_NavNoOp ==
  (images = <<>> /\ lastEvent' \in NavEvents) =>
    /\ idx' = idx
    /\ UNCHANGED displayVars
    /\ UNCHANGED cardError

\* An empty card stays empty, with the same placeholder and hint and no timer.
C15_Terminal ==
  EmptyCard =>
    /\ probeDone'
    /\ images' = <<>>
    /\ thumb' = thumb
    /\ hint' = hint
    /\ UNCHANGED timerVars

\* C15: without images navigation is a no-op (next, previous, the arrow keys
\* and autoplay leave the index, the image and the buttons as they are), and
\* once the probe has completed with no image no sequence of events gives the
\* card images, changes its placeholder or its hint, or starts a timer.
C15_EmptyIsTerminal ==
  /\ []C15_EmptyShown
  /\ [][C15_NavNoOp /\ C15_Terminal]_vars

C15_Witness ==
  /\ EmptyCard
  /\ lastEvent = "nextClick"
  /\ ~isPaused
  /\ idx = 0
  /\ thumb = Placeholder("No+Image")
  /\ timers = {}

\* A click flips the pause flag; from paused it leaves a card of two or more
\* images with a running timer, and where no timer ran it ends as startAuto
\* ends (a new timer for two or more images, none otherwise); from unpaused
\* it leaves the timer as it was.
C16_Click ==
  lastEvent' = "click" =>
    /\ isPaused' = ~isPaused
    /\ (isPaused /\ Len(images) >= 2) => (interval' # 0 /\ interval' \in timers')
    /\ (isPaused /\ timers = {}) =>
         timers' = IF Len(images) >= 2 THEN {interval'} ELSE {}
    /\ ~isPaused => UNCHANGED timerVars

\* C16: a card click flips the pause flag; a click from paused to unpaused on
\* a card without a running timer starts autoplay, so that a card with two or
\* more images has a running timer after it; a click from unpaused to paused
\* leaves the timer as it was.
C16_ClickTogglesPause == [][C16_Click]_vars

C16_Witness ==
  /\ lastEvent = "click"
  /\ ~isPaused
  /\ probeDone
  /\ Len(images) >= 2
  /\ interval # 0
  /\ interval \in timers

EnterEvents == {"mouseenter", "focusin"}

LeaveEvents == {"mouseleave", "focusout"}

C17_Step ==
  /\ lastEvent' \in EnterEvents => isPaused'
  /\ lastEvent' \in LeaveEvents => ~isPaused'
  /\ (lastEvent \in {"click", " "} /\ isPaused /\ lastEvent' \in LeaveEvents) =>
       ~isPaused'
  /\ (lastEvent \in LeaveEvents /\ lastEvent' = "tick" /\ Len(images) >= 2) =>
       /\ idx' = (idx + 1) % Len(images)
       /\ thumb' = images[idx' + 1].file

\* C17: hover-enter and focus-enter set the pause flag, hover-leave and
\* focus-leave clear it, whatever set it: a pause made by a click or by the
\* spacebar is gone after the next hover-leave or focus-leave, and the ticks
\* that follow advance the carousel.
C17_HoverOverridesPause == [][C17_Step]_vars

C17_Witness ==
  /\ lastEvent = "mouseleave"
  /\ ~isPaused
  /\ Len(images) = 3
  /\ idx = 1
  /\ interval \in timers

\* A step cancels no timer and keeps the handle of a running one.
C18_Step ==
  /\ timers \subseteq timers'
  /\ interval # 0 => interval' = interval
  /\ interval \in timers => interval' \in timers'

\* C18: once started, a card's autoplay timer is never cancelled: in no
\* sequence of user events, ticks and page events, the removal of the card
\* from the page included, does a card with a running timer reach a state
\* without it.
C18_TimerNeverCancelled == [][C18_Step]_vars

C18_Witness ==
  /\ removed
  /\ lastEvent = "tick"
  /\ interval # 0
  /\ interval \in timers
  /\ idx = 1

\* At most one timer, and it is the one the handle names.
C19_Handle ==
  /\ Cardinality(timers) <= 1
  /\ timers = IF interval = 0 THEN {} ELSE {interval}
  /\ timersMade <= 1
  /\ interval \in 0..timersMade

\* A start leaves the timer it created as the only one, under the handle.
C19_Start ==
  timersMade' # timersMade =>
    /\ timersMade' = timersMade + 1
    /\ interval' = timersMade'
    /\ timers' = {interval'}

\* C19: a card never has more than one live autoplay timer, and its handle
\* always names the only timer created and not cleared: no timer is orphaned.
C19_SingleTimer ==
  /\ []C19_Handle
  /\ [][C19_Start]_vars

C19_Witness ==
  /\ lastEvent = "probeComplete"
  /\ Len(images) >= 2
  /\ timersMade = 1
  /\ timers = {1}
  /\ interval = 1

C20_Step ==
  lastEvent' \in {"prevClick", "nextClick", "ArrowLeft", "ArrowRight"} =>
    /\ isPaused' = isPaused
    /\ UNCHANGED timerVars
    /\ UNCHANGED <<images, hint, probeDone, thumbAlt, prevDisplay, nextDisplay>>

\* C20: navigation never changes the play state: a prev/next click or an
\* arrow key changes only the index and the image shown, leaves the pause
\* flag and the timer handle as they are, and a prev/next click does not act
\* as the card's pause toggle.
C20_NavigationKeepsPlayState == [][C20_Step]_vars

C20_Witness ==
  /\ lastEvent = "prevClick"
  /\ isPaused
  /\ Len(images) = 3
  /\ idx = 2
  /\ interval \in timers

====
